---------------------------- MODULE Spec2Model ----------------------------
(***************************************************************************)
(* Model of the bq769x0 battery-management driver (src/bq769x0.cpp).       *)
(*                                                                         *)
(* The driver object is the record bms, the chip behind the I2C bus is the *)
(* record chip, _timer.read_ms() is now.  Every public method is one       *)
(* action; the methods it calls are operators over a "machine" record      *)
(* [bms, chip, writes, ret] so that a nested call (checkStatus calling     *)
(* updateCurrent calling writeRegister) is part of the caller's action.    *)
(* call records the last completed method call: its name, its arguments,   *)
(* its return value (a bool as 1/0), the branch it took and the register   *)
(* writes it issued, in order.                                             *)
(* bus is the position of readRegister inside its CRC retry loop.          *)
(* obs observes the bus since the last alert interrupt: how often each     *)
(* fault bit was written to SYS_STAT, and the value SYS_STAT has held.     *)
(***************************************************************************)
EXTENDS Integers, Sequences, FiniteSets

VARIABLES bms, chip, now, call, bus, obs

vars == <<bms, chip, now, call, bus, obs>>

-----------------------------------------------------------------------------
(* C integer helpers                                                       *)

\* C's a & b on non-negative ints
RECURSIVE BitAnd(_, _)
BitAnd(a, b) ==
    IF a = 0 \/ b = 0 THEN 0
    ELSE (a % 2) * (b % 2) + 2 * BitAnd(a \div 2, b \div 2)

\* C's a | b on non-negative ints
RECURSIVE BitOr(_, _)
BitOr(a, b) ==
    IF a = 0 THEN b
    ELSE IF b = 0 THEN a
    ELSE (IF a % 2 = 1 \/ b % 2 = 1 THEN 1 ELSE 0) + 2 * BitOr(a \div 2, b \div 2)

\* C's a ^ b on non-negative ints
RECURSIVE BitXor(_, _)
BitXor(a, b) ==
    IF a = 0 THEN b
    ELSE IF b = 0 THEN a
    ELSE ((a + b) % 2) + 2 * BitXor(a \div 2, b \div 2)

\* C's integer division: the quotient truncated towards zero (b > 0)
CDiv(a, b) == IF a >= 0 THEN a \div b ELSE -((-a) \div b)

\* C's abs()
Abs(a) == IF a < 0 THEN -a ELSE a

-----------------------------------------------------------------------------
(* Register addresses (registers.h, as printed by printRegisters)          *)

SYS_STAT    == 0
CELLBAL1    == 1
SYS_CTRL1   == 4
SYS_CTRL2   == 5
PROTECT1    == 6
PROTECT2    == 7
PROTECT3    == 8
OV_TRIP     == 9
UV_TRIP     == 10
CC_CFG      == 11
BAT_HI_BYTE == 42
BAT_LO_BYTE == 43
TS1_HI_BYTE == 44
TS1_LO_BYTE == 45
CC_HI_BYTE  == 50
CC_LO_BYTE  == 51
ADCGAIN1    == 80
ADCOFFSET   == 81
ADCGAIN2    == 89

\* the registers the chip holds between calls
RegAddrs ==
    {SYS_STAT, CELLBAL1, CELLBAL1 + 1, CELLBAL1 + 2, SYS_CTRL1, SYS_CTRL2,
     PROTECT1, PROTECT2, PROTECT3, OV_TRIP, UV_TRIP, CC_CFG, ADCGAIN1, ADCOFFSET, ADCGAIN2}

\* the six fault bits of SYS_STAT: XR, ALERT, UV, OV, SCD, OCD (0b00111111)
FaultMask == 63
\* the CC_READY bit of SYS_STAT (0b10000000)
CC_READY  == 128

-----------------------------------------------------------------------------
(* Register transport                                                      *)

\* one step of the loop body of _crc8_ccitt_update on the uint8_t data
crc8_shift(data) ==
    IF BitAnd(data, 128) # 0
    THEN BitXor((data * 2) % 256, 7)
    ELSE (data * 2) % 256

RECURSIVE crc8_loop(_, _)
crc8_loop(data, i) ==
    IF i = 0 THEN data ELSE crc8_loop(crc8_shift(data), i - 1)

\* uint8_t _crc8_ccitt_update(uint8_t inCrc, uint8_t inData)
crc8_ccitt_update(inCrc, inData) ==
    crc8_loop(BitXor(inCrc % 256, inData % 256), 8)


\* The chip's reaction to a register write.  SYS_STAT is write-1-to-clear;
\* a fault whose cause persists (chip.stuck) reads as set again at once.
ChipWrite(c, address, byte) ==
    IF address = SYS_STAT
    THEN [c EXCEPT !.reg[SYS_STAT] =
                     BitOr(BitAnd(c.reg[SYS_STAT], 255 - byte), c.stuck)]
    ELSE [c EXCEPT !.reg[address] = byte]

\* void writeRegister(int address, int data): one bus write of the byte
\* (char) data; the write is logged in m.writes
writeRegister(m, address, data) ==
    [m EXCEPT !.chip = ChipWrite(m.chip, address, data % 256),
              !.writes = Append(m.writes, <<address, data % 256>>)]

\* int readRegister(int address) over a channel that delivers every frame
\* intact: the first frame is accepted and its data byte returned.  (The
\* retry loop over a corrupting channel is ReadRegisterCall / ReadFrame.)
\* The ADC result registers hold what the converters deliver during the
\* call (m.adc: pack, thermistor and coulomb-counter words, cell words);
\* the other registers hold chip.reg.
readRegister(m, address) ==
    CASE address = BAT_HI_BYTE -> m.adc.bat \div 256
      [] address = BAT_LO_BYTE -> m.adc.bat % 256
      [] address = TS1_HI_BYTE -> m.adc.ts \div 256
      [] address = TS1_LO_BYTE -> m.adc.ts % 256
      [] address = CC_HI_BYTE  -> m.adc.cc \div 256
      [] address = CC_LO_BYTE  -> m.adc.cc % 256
      [] OTHER -> m.chip.reg[address]

-----------------------------------------------------------------------------
(* Measurement pipeline                                                    *)

\* (int16_t) of a 16-bit pattern
Int16(x) == IF x >= 32768 THEN x - 65536 ELSE x

\* batCurrent as line 739 computes it: (int16_t) adcVal * 8.44 / shunt
currentReading(m) ==
    CDiv(Int16(BitOr(readRegister(m, CC_HI_BYTE) * 256,
                     readRegister(m, CC_LO_BYTE))) * 844,
         100 * m.bms.shuntResistorValue_mOhm)

\* "reduce resolution for actual current value"
reducedCurrent(cur) == IF cur > -10 /\ cur < 10 THEN 0 ELSE cur

\* the body of "if (sys_stat.bits.CC_READY == 1)" for the reading cur.
\* The chip runs beside the bus: m.adc.late are the bits it latches
\* between the read of SYS_STAT and the write that clears CC_READY (ALERT
\* is high already, so no edge follows).
updateCurrentReady(m, regByte, cur) ==
    writeRegister(
        [m EXCEPT !.bms.batCurrent = reducedCurrent(cur),
                  !.bms.coulombCounter = @ + CDiv(cur, 4),
                  !.bms.idleTimestamp =
                     IF Abs(reducedCurrent(cur)) > m.bms.idleCurrentThreshold
                     THEN now ELSE @,
                  !.bms.alertInterruptFlag =
                     IF BitAnd(regByte, FaultMask) = 0 THEN FALSE ELSE @,
                  !.chip.reg[SYS_STAT] = BitOr(@, m.adc.late)],
        SYS_STAT, 128)

\* updateCurrent after "sys_stat.regByte = readRegister(SYS_STAT)"
updateCurrentRead(m, regByte) ==
    IF BitAnd(regByte, CC_READY) # 0
    THEN updateCurrentReady(m, regByte, currentReading(m))
    ELSE m

\* void updateCurrent()
updateCurrent(m) == updateCurrentRead(m, readRegister(m, SYS_STAT))

\* cellVoltages[i] = adcVal * adcGain / 1000 + adcOffset
CellMilliVolt(b, adcVal) == CDiv(adcVal * b.adcGain, 1000) + b.adcOffset

\* the loop of updateVoltages from cell i on
RECURSIVE updateVoltagesLoop(_, _, _)
updateVoltagesLoop(b, vc, i) ==
    IF i >= b.numberOfCells THEN b
    ELSE LET v  == CellMilliVolt(b, vc[i])
             cv == [b.cellVoltages EXCEPT ![i] = v]
             mx == IF v > cv[b.idCellMaxVoltage] THEN i ELSE b.idCellMaxVoltage
             mn == IF v < cv[b.idCellMinVoltage] /\ v > 500
                   THEN i ELSE b.idCellMinVoltage
         IN updateVoltagesLoop([b EXCEPT !.cellVoltages = cv,
                                         !.idCellMaxVoltage = mx,
                                         !.idCellMinVoltage = mn], vc, i + 1)

\* void updateVoltages()
updateVoltages(m) ==
    LET adcVal == BitOr(readRegister(m, BAT_HI_BYTE) * 256,
                        readRegister(m, BAT_LO_BYTE))
        b0 == [m.bms EXCEPT
                 !.batVoltage = CDiv(4 * m.bms.adcGain * adcVal, 1000)
                                + 4 * m.bms.adcOffset,
                 !.idCellMaxVoltage = 0,
                 !.idCellMinVoltage = 0]
    IN [m EXCEPT !.bms = updateVoltagesLoop(b0, m.adc.vc, 0)]

\* The Beta-equation conversion of updateTemperatures (beta 3435) for the
\* thermistor readings the model's chip produces, in degC * 10
ThermistorDeciC(adcVal) ==
    CASE adcVal = 1982 -> 600
      [] adcVal = 2815 -> 450
      [] adcVal = 4312 -> 250
      [] adcVal = 6401 -> 0
      [] adcVal = 7652 -> -200

ThermistorReadings == {1982, 2815, 4312, 6401, 7652}

\* void updateTemperatures()
updateTemperatures(m) ==
    LET adcVal == BitOr(BitAnd(readRegister(m, TS1_HI_BYTE), 63) * 256,
                        readRegister(m, TS1_LO_BYTE))
    IN [m EXCEPT !.bms.temperatures0 = ThermistorDeciC(adcVal)]

-----------------------------------------------------------------------------
(* Fault state machine                                                     *)

\* a clear attempt made whenever its condition holds, for a bit read or not
clearIfDue(m, regByte, mask, cond) ==
    IF cond THEN writeRegister(m, SYS_STAT, mask) ELSE m

\* "if (sys_stat.regByte & mask) { if (cond) writeRegister(SYS_STAT, mask) }"
clearIf(m, regByte, mask, cond) ==
    IF BitAnd(regByte, mask) # 0 /\ cond
    THEN writeRegister(m, SYS_STAT, mask)
    ELSE m

\* "cellVoltages[idCellMinVoltage] > minCellVoltage"
uvRecovered(b) == b.cellVoltages[b.idCellMinVoltage] > b.minCellVoltage

\* "cellVoltages[idCellMaxVoltage] < maxCellVoltage"
ovRecovered(b) == b.cellVoltages[b.idCellMaxVoltage] < b.maxCellVoltage

\* the UV branch after its updateVoltages()
clearUVRead(m1, regByte) == clearIf(m1, regByte, 8, uvRecovered(m1.bms))

\* the OV branch after its updateVoltages()
clearOVRead(m1, regByte) == clearIf(m1, regByte, 4, ovRecovered(m1.bms))

\* a UV branch that tests the cell voltages of the last read
clearUVStale(m, regByte) == clearUVRead(m, regByte)

\* the UV branch: a fresh voltage read, then the clear if the cell recovered
clearUV(m, regByte) ==
    IF BitAnd(regByte, 8) # 0
    THEN clearUVRead(updateVoltages(m), regByte)
    ELSE m

\* the OV branch
clearOV(m, regByte) ==
    IF BitAnd(regByte, 4) # 0
    THEN clearOVRead(updateVoltages(m), regByte)
    ELSE m

\* the block guarded by "called only once per second": the six per-fault
\* clear attempts, then secSinceErrorCounter++
faultHandling(m, regByte) ==
    LET cnt == m.bms.secSinceErrorCounter
        m1  == clearIf(m, regByte, 32, cnt % 3 = 0)
        m2  == clearIf(m1, regByte, 16, cnt % 10 = 0)
        m3  == clearUV(m2, regByte)
        m4  == clearOV(m3, regByte)
        m5  == clearIf(m4, regByte, 2, cnt % 60 = 0)
        m6  == clearIf(m5, regByte, 1, cnt % 60 = 0)
    IN [m6 EXCEPT !.bms.secSinceErrorCounter = cnt + 1]

\* the early exit taken on errorStatus == 0 alone
checkStatusIdleIgnoringAlert(b) == b.errorStatus = 0

\* the early exit of checkStatus: no alert pending and no known fault
checkStatusIdle(b) == b.alertInterruptFlag = FALSE /\ b.errorStatus = 0

\* secSinceErrorCounter after "if (alertInterruptFlag == true)
\* secSinceErrorCounter = 0"
counterOnFault(b) == IF b.alertInterruptFlag THEN 0 ELSE b.secSinceErrorCounter

\* secSinceErrorCounter after the check "for overrun of _timer.read_ms() or
\* very slow running program"
resyncCounter(secSinceInterrupt, counter) ==
    IF Abs(secSinceInterrupt - counter) > 2 THEN secSinceInterrupt ELSE counter

\* a return that takes errorStatus from SYS_STAT as the clear attempts of
\* the call left it
checkStatusReturnCleared(m) ==
    [m EXCEPT !.bms.errorStatus = BitAnd(m.chip.reg[SYS_STAT], FaultMask),
              !.ret = BitAnd(m.chip.reg[SYS_STAT], FaultMask),
              !.status = BitAnd(m.chip.reg[SYS_STAT], FaultMask)]

\* "return errorStatus"; status keeps the value returned for the caller
checkStatusReturn(m) ==
    [m EXCEPT !.ret = m.bms.errorStatus, !.status = m.bms.errorStatus]

\* checkStatus from "if (secSinceInterrupt >= secSinceErrorCounter)" on
checkStatusTimed(m, regByte, secSinceInterrupt) ==
    checkStatusReturn(IF secSinceInterrupt >= m.bms.secSinceErrorCounter
                      THEN faultHandling(m, regByte) ELSE m)

\* the branch "Serious error occured" for secSinceInterrupt
checkStatusFault(m, regByte, secSinceInterrupt) ==
    checkStatusTimed(
        [m EXCEPT !.bms.errorStatus = regByte,
                  !.bms.secSinceErrorCounter =
                     resyncCounter(secSinceInterrupt, counterOnFault(m.bms))],
        regByte, secSinceInterrupt)

\* checkStatus from "if (sys_stat.regByte & 0b00111111)" on
checkStatusRead(m, regByte) ==
    IF BitAnd(regByte, FaultMask) # 0
    THEN checkStatusFault(m, regByte,
                          CDiv(now - m.bms.interruptTimestamp, 1000))
    ELSE [m EXCEPT !.bms.errorStatus = 0, !.ret = 0, !.status = 0]

\* checkStatus after "sys_stat.regByte = readRegister(SYS_STAT)"
checkStatusPoll(m, regByte) ==
    checkStatusRead(IF BitAnd(regByte, CC_READY) # 0
                    THEN updateCurrent(m) ELSE m,
                    regByte)

\* int checkStatus()
checkStatus(m) ==
    IF checkStatusIdle(m.bms)
    THEN [m EXCEPT !.ret = 0, !.status = 0]
    ELSE checkStatusPoll(m, readRegister(m, SYS_STAT))

-----------------------------------------------------------------------------
(* FET control                                                             *)

\* the limits of enableCharging without the two temperature tests
chargingAllowedIgnoringTemperature(b) ==
    b.cellVoltages[b.idCellMaxVoltage] < b.maxCellVoltage

\* the limits enableCharging tests after checkStatus() == 0
chargingAllowed(b) ==
    /\ b.cellVoltages[b.idCellMaxVoltage] < b.maxCellVoltage
    /\ b.temperatures0 < b.maxCellTempCharge
    /\ b.temperatures0 > b.minCellTempCharge

\* an enableCharging that writes CC_EN and CHG, not the byte it read
enableChargingOverwriting(m) ==
    IF m.ret = 0 /\ chargingAllowed(m.bms)
    THEN [writeRegister(m, SYS_CTRL2, 65) EXCEPT !.ret = 1]
    ELSE [m EXCEPT !.ret = 0]

\* enableCharging after its checkStatus(); ret is 1 for true, 0 for false
enableChargingChecked(m) ==
    IF m.ret = 0 /\ chargingAllowed(m.bms)
    THEN [writeRegister(m, SYS_CTRL2, BitOr(readRegister(m, SYS_CTRL2), 1))
            EXCEPT !.ret = 1]
    ELSE [m EXCEPT !.ret = 0]

\* bool enableCharging()
enableCharging(m) == enableChargingChecked(checkStatus(m))

\* the limits enableDischarging tests after checkStatus() == 0
dischargingAllowed(b) ==
    /\ b.cellVoltages[b.idCellMinVoltage] > b.minCellVoltage
    /\ b.temperatures0 < b.maxCellTempDischarge
    /\ b.temperatures0 > b.minCellTempDischarge

\* enableDischarging after its checkStatus(); ret is 1 for true, 0 for false
enableDischargingChecked(m) ==
    IF m.ret = 0 /\ dischargingAllowed(m.bms)
    THEN [writeRegister(m, SYS_CTRL2, BitOr(readRegister(m, SYS_CTRL2), 2))
            EXCEPT !.ret = 1]
    ELSE [m EXCEPT !.ret = 0]

\* bool enableDischarging()
enableDischarging(m) == enableDischargingChecked(checkStatus(m))

-----------------------------------------------------------------------------
(* Balancing engine                                                        *)

\* void setBalancingThresholds(int idleTime_min, int absVoltage_mV,
\*                             int voltageDifference_mV)
setBalancingThresholds(m, idleTime_min, absVoltage_mV, voltageDifference_mV) ==
    [m EXCEPT !.bms.balancingMinIdleTime_s = idleTime_min * 60,
              !.bms.balancingMinCellVoltage_mV = absVoltage_mV,
              !.bms.balancingMaxVoltageDifference_mV = voltageDifference_mV]

\* the inner-loop step without the adjacent-cell test
balancingCellAnyNeighbour(b, section, i, balancingFlags) ==
    IF b.cellVoltages[section * 5 + i] - b.cellVoltages[b.idCellMinVoltage]
          > b.balancingMaxVoltageDifference_mV
    THEN BitOr(balancingFlags, 2 ^ i)
    ELSE balancingFlags

\* one step of the inner loop: try to add cell i of the section to the flags
balancingCell(b, section, i, balancingFlags) ==
    IF b.cellVoltages[section * 5 + i] - b.cellVoltages[b.idCellMinVoltage]
          > b.balancingMaxVoltageDifference_mV
    THEN LET balancingFlagsTarget == BitOr(balancingFlags, 2 ^ i)
             adjacentCellCollision ==
                \/ BitAnd(balancingFlagsTarget * 2, balancingFlags) # 0
                \/ BitAnd(balancingFlags * 2, balancingFlagsTarget) # 0
         IN IF adjacentCellCollision = FALSE
            THEN balancingFlagsTarget ELSE balancingFlags
    ELSE balancingFlags

\* the inner loop "for (int i = 0; i < 5; i++)" from cell i on
RECURSIVE sectionFlags(_, _, _, _)
sectionFlags(b, section, i, balancingFlags) ==
    IF i >= 5 THEN balancingFlags
    ELSE sectionFlags(b, section, i + 1,
                      balancingCell(b, section, i, balancingFlags))

\* the end of one pass of the section loop: balancingStatus and CELLBAL
balanceSection(m, section, balancingFlags) ==
    writeRegister([m EXCEPT !.bms.balancingStatus =
                               BitOr(@, balancingFlags * (2 ^ section))],
                  CELLBAL1 + section, balancingFlags)

\* the section loop of the balancing branch from section on
RECURSIVE balanceSections(_, _)
balanceSections(m, section) ==
    IF section >= m.bms.numberOfCells \div 5 THEN m
    ELSE balanceSections(
            balanceSection(m, section, sectionFlags(m.bms, section, 0, 0)),
            section + 1)

\* a clearing branch that zeroes the first section's register only
clearFirstSection(m, section) == writeRegister(m, CELLBAL1, 0)

\* the section loop of the clearing branch from section on
RECURSIVE clearSections(_, _)
clearSections(m, section) ==
    IF section >= m.bms.numberOfCells \div 5 THEN m
    ELSE clearSections(writeRegister(m, CELLBAL1 + section, 0), section + 1)

\* the conditions with inclusive bounds on the two voltages
balancingAllowedInclusive(b, idleSeconds) ==
    /\ idleSeconds >= b.balancingMinIdleTime_s
    /\ b.cellVoltages[b.idCellMaxVoltage] >= b.balancingMinCellVoltage_mV
    /\ b.cellVoltages[b.idCellMaxVoltage] - b.cellVoltages[b.idCellMinVoltage]
          >= b.balancingMaxVoltageDifference_mV

\* the conditions of "check if balancing allowed" after checkStatus() == 0
balancingAllowed(b, idleSeconds) ==
    /\ idleSeconds >= b.balancingMinIdleTime_s
    /\ b.cellVoltages[b.idCellMaxVoltage] > b.balancingMinCellVoltage_mV
    /\ b.cellVoltages[b.idCellMaxVoltage] - b.cellVoltages[b.idCellMinVoltage]
          > b.balancingMaxVoltageDifference_mV

\* idleSeconds as computed on entry, with the check "for _timer.read_ms()
\* overflow"
idleSecondsOf(b) ==
    IF CDiv(now - b.idleTimestamp, 1000) < 0
    THEN CDiv(now, 1000)
    ELSE CDiv(now - b.idleTimestamp, 1000)

\* "if (idleSeconds < 0) idleTimestamp = 0"
resetIdleTimestamp(m) ==
    IF CDiv(now - m.bms.idleTimestamp, 1000) < 0
    THEN [m EXCEPT !.bms.idleTimestamp = 0]
    ELSE m

\* a balancing that rests every other call: flags are set only while none
\* are set
updateBalancingSwitchesAlternating(m, idleSeconds) ==
    IF m.ret = 0 /\ balancingAllowed(m.bms, idleSeconds)
          /\ m.bms.balancingStatus = 0
    THEN [balanceSections(m, 0)
            EXCEPT !.ret = 0, !.branch = "balance",
                   !.idleSeconds = idleSeconds]
    ELSE IF m.bms.balancingStatus > 0
    THEN [clearSections(m, 0)
            EXCEPT !.bms.balancingStatus = 0, !.ret = 0, !.branch = "clear",
                   !.idleSeconds = idleSeconds]
    ELSE [m EXCEPT !.ret = 0, !.branch = "none", !.idleSeconds = idleSeconds]

\* updateBalancingSwitches after its checkStatus(); branch records which
\* branch ran, idleSeconds the idle time the gate saw
updateBalancingSwitchesChecked(m, idleSeconds) ==
    IF m.ret = 0 /\ balancingAllowed(m.bms, idleSeconds)
    THEN [balanceSections([m EXCEPT !.bms.balancingStatus = 0], 0)
            EXCEPT !.ret = 0, !.branch = "balance",
                   !.idleSeconds = idleSeconds]
    ELSE IF m.bms.balancingStatus > 0
    THEN [clearSections(m, 0)
            EXCEPT !.bms.balancingStatus = 0, !.ret = 0, !.branch = "clear",
                   !.idleSeconds = idleSeconds]
    ELSE [m EXCEPT !.ret = 0, !.branch = "none", !.idleSeconds = idleSeconds]

\* void updateBalancingSwitches()
updateBalancingSwitches(m) ==
    updateBalancingSwitchesChecked(checkStatus(resetIdleTimestamp(m)),
                                   idleSecondsOf(m.bms))

\* void update()
update(m) ==
    updateBalancingSwitches(updateTemperatures(updateVoltages(updateCurrent(m))))

-----------------------------------------------------------------------------
(* Threshold configurator                                                  *)

\* UV_delay_setting / OV_delay_setting (seconds), indexed from 0
UV_delay_setting == <<1, 4, 8, 16>>
OV_delay_setting == <<1, 2, 4, 8>>

\* "for (i = size-1; i > 0; i--) if (value >= table[i]) { code = i; break; }"
\* with the code preset to 0; table is 1-indexed here, so table[i + 1]
RECURSIVE tableScan(_, _, _)
tableScan(table, value, i) ==
    IF i <= 0 THEN 0
    ELSE IF value >= table[i + 1] THEN i
    ELSE tableScan(table, value, i - 1)

\* protect3.bits.UV_DELAY = i (bits 7..6 of PROTECT3)
withUV_DELAY(regByte, i) == (regByte % 64) + 64 * i

\* protect3.bits.OV_DELAY = i (bits 5..4 of PROTECT3)
withOV_DELAY(regByte, i) == (regByte \div 64) * 64 + 16 * i + (regByte % 16)

\* the 14-bit ADC code of a cell voltage: ((long)voltage_mV - adcOffset) * 1000 / adcGain
adcCode(b, voltage_mV) == CDiv((voltage_mV - b.adcOffset) * 1000, b.adcGain)

\* uv_trip without the "+= 1" of line 600
uvTripNoRoundUp(b, voltage_mV) == (adcCode(b, voltage_mV) \div 16) % 256

\* ov_trip with the "+= 1" of the undervoltage setter
ovTripRoundUp(b, voltage_mV) == ((adcCode(b, voltage_mV) \div 16) % 256) + 1

\* uv_trip: the middle eight bits of the code, plus one
uvTrip(b, voltage_mV) == ((adcCode(b, voltage_mV) \div 16) % 256) + 1

\* ov_trip: the middle eight bits of the code
ovTrip(b, voltage_mV) == (adcCode(b, voltage_mV) \div 16) % 256

\* the value setCellUndervoltageProtection returns for uv_trip
uvAchieved(b, uv_trip) ==
    CDiv(BitOr(4096, uv_trip * 16) * b.adcGain, 1000) + b.adcOffset

\* the value setCellOvervoltageProtection returns for ov_trip
ovAchieved(b, ov_trip) ==
    CDiv(BitOr(8192, ov_trip * 16) * b.adcGain, 1000) + b.adcOffset

\* int setCellUndervoltageProtection(int voltage_mV, int delay_s)
setCellUndervoltageProtection(m, voltage_mV, delay_s) ==
    LET m1 == [m EXCEPT !.bms.minCellVoltage = voltage_mV]
        protect3 == readRegister(m1, PROTECT3)
        uv_trip == uvTrip(m1.bms, voltage_mV)
        m2 == writeRegister(m1, UV_TRIP, uv_trip)
        m3 == writeRegister(m2, PROTECT3,
                 withUV_DELAY(protect3, tableScan(UV_delay_setting, delay_s, 3)))
    IN [m3 EXCEPT !.ret = uvAchieved(m3.bms, uv_trip)]

\* int setCellOvervoltageProtection(int voltage_mV, int delay_s)
setCellOvervoltageProtection(m, voltage_mV, delay_s) ==
    LET m1 == [m EXCEPT !.bms.maxCellVoltage = voltage_mV]
        protect3 == readRegister(m1, PROTECT3)
        ov_trip == ovTrip(m1.bms, voltage_mV)
        m2 == writeRegister(m1, OV_TRIP, ov_trip)
        m3 == writeRegister(m2, PROTECT3,
                 withOV_DELAY(protect3, tableScan(OV_delay_setting, delay_s, 3)))
    IN [m3 EXCEPT !.ret = ovAchieved(m3.bms, ov_trip)]

\* SCD_threshold_setting / OCD_threshold_setting (mV across the shunt, RSNS = 1)
\* and SCD_delay_setting (us) / OCD_delay_setting (ms), indexed from 0
SCD_threshold_setting == <<44, 67, 89, 111, 133, 155, 178, 200>>
SCD_delay_setting == <<70, 100, 200, 400>>
OCD_threshold_setting ==
    <<17, 22, 28, 33, 39, 44, 50, 56, 61, 67, 72, 78, 83, 89, 94, 100>>
OCD_delay_setting == <<8, 20, 40, 80, 160, 320, 640, 1280>>

\* sizeof(table) of a table of int: four bytes an element
sizeofTable(table) == 4 * Len(table)

\* "for (int i = sizeof(table)-1; i > 0; i--) if (value >= table[i]) { code
\* = i; break; }".  The indices from Len(table) to sizeof(table)-1 are
\* outside the table; what the program reads there is not defined by it.
\* beyond is the highest of these indices at which it reads a word <=
\* value, 0 if it reads none.
intTableScan(table, value, beyond) ==
    IF beyond >= Len(table) THEN beyond
    ELSE tableScan(table, value, Len(table) - 1)

\* long setShortCircuitProtection(long current_mA, int delay_us).  protect1
\* is a local that is not initialised: its bits 6..5 hold what the stack
\* held (stack).  RSNS is bit 7, SCD_DELAY bits 4..3, SCD_THRESH bits 2..0.
setShortCircuitProtection(m, current_mA, delay_us, beyondThreshold, beyondDelay, stack) ==
    LET thresh == intTableScan(SCD_threshold_setting,
                     CDiv(current_mA * m.bms.shuntResistorValue_mOhm, 1000),
                     beyondThreshold) % 8
        delay == intTableScan(SCD_delay_setting, delay_us, beyondDelay) % 4
        m1 == writeRegister(m, PROTECT1,
                            128 + BitAnd(stack, 96) + 8 * delay + thresh)
    IN [m1 EXCEPT !.ret = CDiv(SCD_threshold_setting[thresh + 1] * 1000,
                               m1.bms.shuntResistorValue_mOhm),
                  !.branch = IF sizeofTable(SCD_threshold_setting)
                                  > Len(SCD_threshold_setting)
                             THEN "outside" ELSE ""]

\* long setOvercurrentDischargeProtection(long current_mA, int delay_ms).
\* Bit 7 of the local protect2 holds what the stack held; OCD_DELAY is
\* bits 6..4, OCD_THRESH bits 3..0.
setOvercurrentDischargeProtection(m, current_mA, delay_ms, beyondThreshold, beyondDelay, stack) ==
    LET thresh == intTableScan(OCD_threshold_setting,
                     CDiv(current_mA * m.bms.shuntResistorValue_mOhm, 1000),
                     beyondThreshold) % 16
        delay == intTableScan(OCD_delay_setting, delay_ms, beyondDelay) % 8
        m1 == writeRegister(m, PROTECT2,
                            BitAnd(stack, 128) + 16 * delay + thresh)
    IN [m1 EXCEPT !.ret = CDiv(OCD_threshold_setting[thresh + 1] * 1000,
                               m1.bms.shuntResistorValue_mOhm),
                  !.branch = IF sizeofTable(OCD_threshold_setting)
                                  > Len(OCD_threshold_setting)
                             THEN "outside" ELSE ""]

-----------------------------------------------------------------------------
(* State of charge                                                         *)

\* the number of breakpoints of an OCV table (bq769x0.h)
NUM_OCV_POINTS == 4

\* x + y in a 32-bit long: the sum wraps around
AddLong(x, y) ==
    IF x > 0 /\ y > 2147483647 - x
    THEN (x - 2147483647 - 1) + (y - 2147483647 - 1)
    ELSE IF x < 0 /\ y < (-2147483647 - 1) - x
    THEN (x + 2147483647 + 1) + (y + 2147483647 + 1)
    ELSE x + y

\* x * n in a 32-bit long, for n >= 0
RECURSIVE MulLong(_, _)
MulLong(x, n) ==
    IF n = 0 THEN 0
    ELSE IF n % 2 = 0 THEN MulLong(AddLong(x, x), n \div 2)
    ELSE AddLong(x, MulLong(AddLong(x, x), n \div 2))

\* the first n decimal places of r / d, for 0 <= r < d
RECURSIVE DecimalPlaces(_, _, _)
DecimalPlaces(r, d, n) ==
    IF n = 0 THEN 0
    ELSE ((r * 10) \div d) * (10 ^ (n - 1))
         + DecimalPlaces((r * 10) % d, d, n - 1)

\* the double a * x / d converted to an integer, for 0 <= x <= d
ScaleDouble(a, x, d) ==
    IF a < 0 THEN -((((-a) \div d) * x) + (((-a) % d) * x) \div d)
    ELSE ((a \div d) * x) + ((a % d) * x) \div d

\* void setBatteryCapacity(long capacity_mAh)
setBatteryCapacity(m, capacity_mAh) ==
    [m EXCEPT !.bms.nominalCapacity = MulLong(capacity_mAh, 3600)]

\* void setOCV(int voltageVsSOC[NUM_OCV_POINTS]); OCV[i] of the code is
\* OCV[i + 1] of the sequence
setOCV(m, voltageVsSOC) == [m EXCEPT !.bms.OCV = voltageVsSOC]

\* float getSOC(): (double) coulombCounter / nominalCapacity * 100, in
\* hundredths of a percent
getSOC(b) ==
    (IF (b.coulombCounter < 0) = (b.nominalCapacity < 0) THEN 1 ELSE -1)
      * ((Abs(b.coulombCounter) \div Abs(b.nominalCapacity)) * 10000
           + DecimalPlaces(Abs(b.coulombCounter) % Abs(b.nominalCapacity),
                           Abs(b.nominalCapacity), 4))

\* "coulombCounter = nominalCapacity * percent / 100.0": the product of
\* the two integers is a long, the quotient a double
percentOfCapacity(b, percent) == CDiv(MulLong(b.nominalCapacity, percent), 100)

\* an interpolation that counts the voltage above OCV[i] downwards
ocvInterpolateDownwards(b, voltage, i) ==
    ScaleDouble(b.nominalCapacity,
                (NUM_OCV_POINTS - 1 - i) * (b.OCV[i] - b.OCV[i + 1])
                   - (voltage - b.OCV[i + 1]),
                (NUM_OCV_POINTS - 1) * (b.OCV[i] - b.OCV[i + 1]))

\* "interpolate between OCV[i] and OCV[i-1]": nominalCapacity /
\* (NUM_OCV_POINTS - 1.0) * (NUM_OCV_POINTS - 1.0 - i + (voltage - OCV[i]) /
\* (OCV[i-1] - OCV[i])), as the exact quotient converted to an integer
ocvInterpolate(b, voltage, i) ==
    ScaleDouble(b.nominalCapacity,
                (NUM_OCV_POINTS - 1 - i) * (b.OCV[i] - b.OCV[i + 1])
                   + (voltage - b.OCV[i + 1]),
                (NUM_OCV_POINTS - 1) * (b.OCV[i] - b.OCV[i + 1]))

\* the coulombCounter the loop over the OCV table leaves, from point i on
RECURSIVE ocvCounter(_, _, _)
ocvCounter(b, voltage, i) ==
    IF i >= NUM_OCV_POINTS THEN 0
    ELSE IF b.OCV[i + 1] <= voltage
    THEN (IF i = 0 THEN b.nominalCapacity ELSE ocvInterpolate(b, voltage, i))
    ELSE ocvCounter(b, voltage, i + 1)

\* void resetSOC(int percent)
resetSOC(m, percent) ==
    IF percent <= 100 /\ percent >= 0
    THEN [m EXCEPT !.bms.coulombCounter = percentOfCapacity(m.bms, percent)]
    ELSE [m EXCEPT !.bms.coulombCounter =
                      ocvCounter(m.bms,
                                 m.bms.cellVoltages[m.bms.idCellMaxVoltage], 0)]

-----------------------------------------------------------------------------
(* Construction                                                            *)

\* numberOfCells for the chip type: bq76920, bq76930, bq76940
bq76920 == 1
bq76930 == 2
bq76940 == 3

cellsOfType(type) ==
    IF type = bq76920 THEN 5 ELSE IF type = bq76930 THEN 10 ELSE 15

\* adcGain = 365 + (((ADCGAIN1 & 0b00001100) << 1) | ((ADCGAIN2 & 0b11100000) >> 5))
gainOf(gain1, gain2) ==
    365 + BitOr(BitAnd(gain1, 12) * 2, BitAnd(gain2, 224) \div 32)

\* The chip as the constructor leaves it after a successful handshake:
\* CC_CFG = 0x19, SYS_CTRL1 = 0b00011000, SYS_CTRL2 = 0b01000000.
\* stat is SYS_STAT at power-up, stuck the fault bits whose cause persists.
ChipAfterInit(stat, stuck, gain1, gain2, offset) ==
    [reg   |-> [a \in RegAddrs |->
                  CASE a = SYS_STAT  -> stat
                    [] a = SYS_CTRL1 -> 24
                    [] a = SYS_CTRL2 -> 64
                    [] a = CC_CFG    -> 25
                    [] a = ADCGAIN1  -> gain1
                    [] a = ADCGAIN2  -> gain2
                    [] a = ADCOFFSET -> offset
                    [] OTHER -> 0],
     stuck |-> stuck]

\* The driver object after bq769x0::bq769x0 with a successful handshake.
\* The members the constructor does not assign are given by the caller
\* (cfg): the constructor leaves them at whatever the object held.
Construct(type, address, crc, c, cfg) ==
    [I2CAddress |-> address,
     type |-> type,
     crcEnabled |-> crc,
     autoBalancingEnabled |-> FALSE,
     balancingMinIdleTime_s |-> 1800,
     idleCurrentThreshold |-> 30,
     thermistorBetaValue |-> 3435,
     numberOfCells |-> cellsOfType(type),
     cellVoltages |-> [i \in 0 .. cellsOfType(type) - 1 |-> 0],
     adcOffset |-> c.reg[ADCOFFSET],
     adcGain |-> gainOf(c.reg[ADCGAIN1], c.reg[ADCGAIN2]),
     \* not assigned by the constructor
     alertInterruptFlag |-> cfg.alertInterruptFlag,
     errorStatus |-> 0,
     secSinceErrorCounter |-> 0,
     interruptTimestamp |-> 0,
     idleTimestamp |-> 0,
     idCellMaxVoltage |-> 0,
     idCellMinVoltage |-> 0,
     batVoltage |-> 0,
     batCurrent |-> 0,
     coulombCounter |-> 0,
     temperatures0 |-> cfg.temperatures0,
     balancingStatus |-> 0,
     shuntResistorValue_mOhm |-> cfg.shuntResistorValue_mOhm,
     minCellVoltage |-> cfg.minCellVoltage,
     maxCellVoltage |-> cfg.maxCellVoltage,
     minCellTempCharge |-> cfg.minCellTempCharge,
     maxCellTempCharge |-> cfg.maxCellTempCharge,
     minCellTempDischarge |-> cfg.minCellTempDischarge,
     maxCellTempDischarge |-> cfg.maxCellTempDischarge,
     balancingMinCellVoltage_mV |-> cfg.balancingMinCellVoltage_mV,
     balancingMaxVoltageDifference_mV |-> cfg.balancingMaxVoltageDifference_mV,
     nominalCapacity |-> cfg.nominalCapacity,
     OCV |-> cfg.OCV]

\* a plain configuration for the members the constructor does not assign
Cfg0 ==
    [alertInterruptFlag |-> TRUE,
     temperatures0 |-> 250,
     shuntResistorValue_mOhm |-> 1,
     minCellVoltage |-> 2800,
     maxCellVoltage |-> 3650,
     minCellTempCharge |-> 0,
     maxCellTempCharge |-> 450,
     minCellTempDischarge |-> -200,
     maxCellTempDischarge |-> 600,
     balancingMinCellVoltage_mV |-> 3030,
     balancingMaxVoltageDifference_mV |-> 30,
     nominalCapacity |-> 0,
     OCV |-> <<>>]

\* bq769x0::bq769x0 on a driver object whose storage holds m.bms, from the
\* communication test on.  readBack is the byte readRegister(CC_CFG)
\* returns: 0x19 from a chip that answers, anything else from a bus that
\* is disturbed.  The else branch assigns nothing and writes nothing: it
\* holds a comment and a debug printf.
bq769x0(m, bqType, bqI2CAddress, crc, readBack) ==
    LET held == [f \in DOMAIN Cfg0 |-> m.bms[f]]
        m1 == writeRegister(m, CC_CFG, 25)
        m3 == writeRegister(writeRegister(m1, SYS_CTRL1, 24), SYS_CTRL2, 64)
    IN IF readBack = 25
       THEN [m3 EXCEPT !.bms = Construct(bqType, bqI2CAddress, crc, m3.chip,
                                         held),
                       !.branch = "configured"]
       ELSE [m1 EXCEPT !.bms = [Construct(bqType, bqI2CAddress, crc, m1.chip,
                                          held)
                                  EXCEPT !.adcOffset = m.bms.adcOffset,
                                         !.adcGain = m.bms.adcGain],
                       !.branch = "communication error"]

NoCall == [op |-> "none", args |-> <<>>, ret |-> 0, status |-> 0,
           branch |-> "", idleSeconds |-> 0, writes |-> <<>>]

BusIdle == [pc |-> "idle", address |-> 0, crc |-> 0, data |-> 0,
            crcSlave |-> 0, reads |-> 0, bad |-> 0]

\* the machine a method call starts on: the current driver and chip, and
\* the words the chip's converters deliver during the call
Machine(adc) ==
    [bms |-> bms, chip |-> chip, adc |-> adc, writes |-> <<>>,
     ret |-> 0, status |-> 0, branch |-> "", idleSeconds |-> 0]

\* how many fault-clear writes the model counts per fault bit
MaxClears == 2

FaultBits == {32, 16, 8, 4, 2, 1}

\* nothing written since the alert interrupt; SYS_STAT holds stat
Obs0(stat) == [clears |-> [f \in FaultBits |-> 0], steady |-> stat]

\* the number of writes of byte to SYS_STAT in a write log
RECURSIVE clearWrites(_, _)
clearWrites(writes, byte) ==
    IF writes = <<>> THEN 0
    ELSE (IF Head(writes) = <<SYS_STAT, byte>> THEN 1 ELSE 0)
         + clearWrites(Tail(writes), byte)

Min(a, b) == IF a < b THEN a ELSE b

\* obs after a call that issued writes and left SYS_STAT at stat
Observe(o, writes, stat) ==
    [clears |-> [f \in FaultBits |->
                   Min(MaxClears, o.clears[f] + clearWrites(writes, f))],
     steady |-> IF stat = o.steady THEN o.steady ELSE -1]

\* the method returns: its effects on driver and chip become the state
Return(op, args, m) ==
    /\ bms' = m.bms
    /\ chip' = m.chip
    /\ obs' = Observe(obs, m.writes, m.chip.reg[SYS_STAT])
    /\ call' = [op |-> op, args |-> args, ret |-> m.ret, status |-> m.status,
                branch |-> m.branch, idleSeconds |-> m.idleSeconds,
                writes |-> m.writes]

-----------------------------------------------------------------------------
(* readRegister over a channel that may corrupt frames                     *)

\* frames one readRegister call may receive before the model stops it
MaxReads == 3

\* data bytes the channel delivers
FrameData == {0, 25, 165}


\* the CRC the chip sends with data byte d read from bus address a:
\* CRC-8 (polynomial 0x07, initial value 0) over {a << 1 | 1, d}
FrameCrc(a, d) == crc8_ccitt_update(crc8_ccitt_update(0, a * 2 + 1), d)

\* "crc = _crc8_ccitt_update(crc, (I2CAddress << 1) | 1);
\*  crc = _crc8_ccitt_update(crc, data);" on the running crc
crcStep(crc, a, d) == crc8_ccitt_update(crc8_ccitt_update(crc, a * 2 + 1), d)

\* CRC bytes the channel delivers with data byte d: the chip's CRC, the
\* byte that happens to equal the driver's running crc, and two fixed
\* bytes; every other byte differs from both CRCs as one of these does
CrcBytes(crc, a, d) == {FrameCrc(a, d), crcStep(crc, a, d), 0, 255}

\* readRegister is entered: crc = 0, the register address is written
ReadRegisterCall ==
    /\ bus.pc \in {"idle", "returned"}
    /\ \E address \in {SYS_STAT, CC_CFG} :
          bus' = [BusIdle EXCEPT !.pc = "reading", !.address = address]
    /\ UNCHANGED <<bms, chip, now, call, obs>>

\* one pass of the do-while loop: a two-byte frame (d, c) arrives
ReadFrame ==
    /\ bus.pc = "reading"
    /\ bms.crcEnabled = TRUE
    /\ bus.reads < MaxReads
    /\ \E d \in FrameData :
       \E c \in CrcBytes(bus.crc, bms.I2CAddress, d) :
          LET crc == crcStep(bus.crc, bms.I2CAddress, d)
              b1  == [bus EXCEPT !.crc = crc, !.data = d, !.crcSlave = c,
                                 !.reads = @ + 1,
                                 !.bad = IF c # FrameCrc(bms.I2CAddress, d)
                                         THEN @ + 1 ELSE @]
          IN IF crc # c
             THEN bus' = b1 /\ UNCHANGED call
             ELSE /\ bus' = [b1 EXCEPT !.pc = "returned"]
                  /\ call' = [NoCall EXCEPT !.op = "readRegister",
                                            !.args = <<bus.address>>,
                                            !.ret = d]
    /\ UNCHANGED <<bms, chip, now, obs>>

\* the branch without CRC: one byte is read and returned
ReadByte ==
    /\ bus.pc = "reading"
    /\ bms.crcEnabled = FALSE
    /\ \E d \in FrameData :
          /\ bus' = [bus EXCEPT !.pc = "returned", !.data = d, !.reads = 1]
          /\ call' = [NoCall EXCEPT !.op = "readRegister",
                                    !.args = <<bus.address>>, !.ret = d]
    /\ UNCHANGED <<bms, chip, now, obs>>

InitCrc ==
    /\ \E address \in {8, 24}, crc \in BOOLEAN :
          bms = Construct(bq76920, address, crc,
                          ChipAfterInit(0, 0, 4, 64, 0), Cfg0)
    /\ chip = ChipAfterInit(0, 0, 4, 64, 0)
    /\ now = 0
    /\ call = NoCall
    /\ bus = BusIdle
    /\ obs = Obs0(0)

NextCrc == ReadRegisterCall \/ ReadFrame \/ ReadByte

SpecCrc == InitCrc /\ [][NextCrc]_vars

\* C3: with CRC enabled, readRegister returns a data byte only if the CRC
\* byte received in the same frame is the CRC-8 (initial value 0) of
\* {bus-address<<1|1, data}, also after earlier mismatching frames.
C3_ReturnsOnlyCrcCheckedData ==
    (bms.crcEnabled /\ bus.pc = "returned")
        => bus.crcSlave = FrameCrc(bms.I2CAddress, bus.data)

\* C4: with CRC enabled, the retry loop ends at the first frame whose CRC
\* byte is correct: after k corrupted frames and one correct frame,
\* readRegister has returned that frame's data after exactly k + 1 reads.
C4_ReturnsAtFirstCorrectFrame ==
    (bms.crcEnabled /\ bus.reads > 0
       /\ bus.crcSlave = FrameCrc(bms.I2CAddress, bus.data))
        => (bus.pc = "returned" /\ bus.reads = bus.bad + 1
              /\ call.ret = bus.data)

-----------------------------------------------------------------------------
(* The voltage-threshold setters over calibrations and requests            *)

\* values of ADCGAIN1 and ADCGAIN2 that give every adcGain in 365..396
Gain1Values == {0, 4, 8, 12}
Gain2Values == {0, 32, 64, 96, 128, 160, 192, 224}

\* values of ADCOFFSET
OffsetValues == {0, 25, 240}

\* requested thresholds in mV: a grid over 1000..4977, and requests at the
\* edges of what UV_TRIP and OV_TRIP encode at adcGain 365
RequestStep == 41
RequestCount == 98
RequestVoltages ==
    {1000 + RequestStep * k : k \in 0 .. RequestCount - 1}
        \cup {2985, 2990, 2991, 3000}

DelayRequests == {1, 8}

\* what the converters deliver when a call does not depend on them
Adc0 == [vc |-> [i \in 0 .. 14 |-> 0], ts |-> 4312, cc |-> 0, bat |-> 0,
         late |-> 0]

SetCellUndervoltageProtection ==
    /\ call.op = "none"
    /\ \E voltage_mV \in RequestVoltages, delay_s \in DelayRequests :
          Return("setCellUndervoltageProtection", <<voltage_mV, delay_s>>,
                 setCellUndervoltageProtection(Machine(Adc0), voltage_mV, delay_s))
    /\ UNCHANGED <<now, bus>>

SetCellOvervoltageProtection ==
    /\ call.op = "none"
    /\ \E voltage_mV \in RequestVoltages, delay_s \in DelayRequests :
          Return("setCellOvervoltageProtection", <<voltage_mV, delay_s>>,
                 setCellOvervoltageProtection(Machine(Adc0), voltage_mV, delay_s))
    /\ UNCHANGED <<now, bus>>

InitThreshold ==
    /\ \E gain1 \in Gain1Values, gain2 \in Gain2Values, offset \in OffsetValues :
          /\ chip = ChipAfterInit(0, 0, gain1, gain2, offset)
          /\ bms = Construct(bq76920, 8, FALSE,
                             ChipAfterInit(0, 0, gain1, gain2, offset), Cfg0)
    /\ now = 0
    /\ call = NoCall
    /\ bus = BusIdle
    /\ obs = Obs0(0)

NextThreshold == SetCellUndervoltageProtection \/ SetCellOvervoltageProtection

SpecThreshold == InitThreshold /\ [][NextThreshold]_vars

\* the ADC code of the request of the last call
RequestCode == adcCode(bms, call.args[1])

\* C9 as stated: for every requested voltage_mV and every calibration,
\* setCellUndervoltageProtection returns a threshold >= voltage_mV.
C9_UvNeverBelowRequest ==
    call.op = "setCellUndervoltageProtection" => call.ret >= call.args[1]

\* C9 amended: for every calibration and every request whose ADC code
\* (voltage_mV - adcOffset) * 1000 / adcGain is at most 8175, the largest
\* code whose rounded-up UV_TRIP value still fits the eight-bit field,
\* setCellUndervoltageProtection returns a threshold >= voltage_mV.
C9_UvNotBelowRequestInRange ==
    (call.op = "setCellUndervoltageProtection" /\ RequestCode <= 8175)
        => call.ret >= call.args[1]

\* a 3000 mV undervoltage request inside the range has been served
C9_Witness ==
    /\ call.op = "setCellUndervoltageProtection"
    /\ call.args[1] = 3000
    /\ RequestCode <= 8175
    /\ RequestCode >= 4096
    /\ call.ret >= 3000
    /\ bms.minCellVoltage = 3000

\* C10 as stated: for every requested voltage_mV and every calibration,
\* setCellOvervoltageProtection returns a threshold <= voltage_mV.
C10_OvNeverAboveRequest ==
    call.op = "setCellOvervoltageProtection" => call.ret <= call.args[1]

\* C10 amended: for every calibration and every request whose ADC code
\* (voltage_mV - adcOffset) * 1000 / adcGain is at least 8192, the lowest
\* code OV_TRIP encodes, setCellOvervoltageProtection returns a threshold
\* <= voltage_mV.
C10_OvNotAboveRequestInRange ==
    (call.op = "setCellOvervoltageProtection" /\ RequestCode >= 8192)
        => call.ret <= call.args[1]

\* an overvoltage request inside the range has been served
C10_Witness ==
    /\ call.op = "setCellOvervoltageProtection"
    /\ RequestCode >= 8192
    /\ RequestCode <= 12287
    /\ call.ret <= call.args[1]
    /\ call.ret > call.args[1] - 10
    /\ bms.maxCellVoltage = call.args[1]

-----------------------------------------------------------------------------
(* The fault state machine against the chip and the clock                  *)

\* seconds the clock runs, and seconds during which new faults arise
MaxTime_s == 61
FaultWindow_s == 1
\* the clock is observed second by second for SecondTicks seconds out of
\* every LongTick_s
SecondTicks == 3
LongTick_s == 20

\* void setAlertInterruptFlag(): the handler of the ALERT pin's rising edge
setAlertInterruptFlag(b) ==
    [b EXCEPT !.interruptTimestamp = now, !.alertInterruptFlag = TRUE]

\* The chip sets bits in SYS_STAT.  ALERT is high while SYS_STAT is not 0:
\* the pin rises, and the handler runs, only if SYS_STAT was 0 before.
ChipRaise(bits, persists) ==
    /\ chip' = [chip EXCEPT !.reg[SYS_STAT] = BitOr(@, bits),
                            !.stuck = IF persists
                                      THEN BitOr(@, BitAnd(bits, FaultMask))
                                      ELSE @]
    /\ IF chip.reg[SYS_STAT] = 0
       THEN /\ bms' = setAlertInterruptFlag(bms)
            /\ obs' = Obs0(bits)
       ELSE /\ bms' = bms
            /\ obs' = [obs EXCEPT !.steady = -1]
    /\ UNCHANGED <<now, call, bus>>

\* Time passes between two calls: one second, during the first seconds of
\* every long period, or a long period at once.
Tick ==
    /\ \E step_s \in {1, LongTick_s} :
          /\ step_s = 1 => (now \div 1000) % LongTick_s < SecondTicks
          /\ now + step_s * 1000 <= MaxTime_s * 1000
          /\ now' = now + step_s * 1000
    /\ UNCHANGED <<bms, chip, call, bus, obs>>

\* fault bits the chip raises in this specification: SCD, XR
FaultKinds == {2, 32}

\* a protection trips or the chip reports a fault, while no other fault is
\* latched or persisting
ChipFault ==
    /\ now <= FaultWindow_s * 1000
    /\ BitAnd(chip.reg[SYS_STAT], FaultMask) = 0
    /\ chip.stuck = 0
    /\ \E bits \in FaultKinds, persists \in BOOLEAN :
          ChipRaise(bits, persists)

\* a coulomb-counter conversion completes
ChipCCReady ==
    /\ BitAnd(chip.reg[SYS_STAT], CC_READY) = 0
    /\ ChipRaise(CC_READY, FALSE)

\* the cause of the persisting faults goes away; the bits stay latched
ChipRecover ==
    /\ chip.stuck # 0
    /\ chip' = [chip EXCEPT !.stuck = 0]
    /\ UNCHANGED <<bms, now, call, bus, obs>>

\* cell words (14 bit) of a pack at 3000 mV per cell at adcGain 375
CellsNormal == [i \in 0 .. 14 |-> 8000]

\* what the chip delivers during a call in this specification: the cell
\* words, and possibly a short circuit detected while the call is running
AdcFault == {[Adc0 EXCEPT !.vc = CellsNormal, !.late = late] : late \in {0, 2}}

\* what checkStatus finds on entry: the alert flag, errorStatus, SYS_STAT
Entry == <<bms.alertInterruptFlag, bms.errorStatus, chip.reg[SYS_STAT]>>

CheckStatus(adcs) ==
    /\ \E adc \in adcs :
          Return("checkStatus", Entry, checkStatus(Machine(adc)))
    /\ UNCHANGED <<now, bus>>

\* After construction.  The constructor assigns neither alertInterruptFlag
\* nor errorStatus; the chip may hold a fault from before the handler was
\* attached (ALERT already high: no rising edge).
InitFault ==
    /\ \E flag \in BOOLEAN, stat \in {0, 32}, persists \in BOOLEAN :
          /\ chip = [ChipAfterInit(stat, 0, 4, 64, 0)
                       EXCEPT !.stuck = IF persists THEN stat ELSE 0]
          /\ bms = Construct(bq76920, 8, FALSE, ChipAfterInit(stat, 0, 4, 64, 0),
                             [Cfg0 EXCEPT !.alertInterruptFlag = flag])
          /\ obs = Obs0(stat)
    /\ now = 0
    /\ call = NoCall
    /\ bus = BusIdle

NextFault ==
    \/ Tick
    \/ ChipFault
    \/ ChipCCReady
    \/ ChipRecover
    \/ CheckStatus(AdcFault)

SpecFault == InitFault /\ [][NextFault]_vars


\* what the last checkStatus call found on entry
EntryFlag == call.args[1]
EntryErrorStatus == call.args[2]
EntryStat == call.args[3]

\* C1 as stated: every checkStatus call made while SYS_STAT has one of the
\* six fault bits set leaves errorStatus nonzero and returns nonzero,
\* whether or not an alert interrupt was delivered before the call.
C1_FaultBitsAlwaysReported ==
    (call.op = "checkStatus" /\ BitAnd(EntryStat, FaultMask) # 0)
        => (bms.errorStatus # 0 /\ call.ret # 0)

\* C1 amended: a checkStatus call entered with alertInterruptFlag true or
\* errorStatus nonzero, while SYS_STAT has one of the six fault bits set,
\* sets errorStatus to the status byte and returns it (nonzero); a call
\* entered with alertInterruptFlag false and errorStatus 0 returns 0 without
\* any bus write and leaves errorStatus 0, whatever SYS_STAT holds.
C1_FaultBitsReportedAfterAlert ==
    call.op = "checkStatus" =>
        /\ ((EntryFlag \/ EntryErrorStatus # 0)
              /\ BitAnd(EntryStat, FaultMask) # 0)
             => (bms.errorStatus = EntryStat /\ call.ret = EntryStat
                   /\ call.ret # 0)
        /\ (~EntryFlag /\ EntryErrorStatus = 0)
             => (call.ret = 0 /\ bms.errorStatus = 0 /\ call.writes = <<>>)

\* a HEALTHY driver with the alert pending has polled a fault and is FAULTED
C1_Witness ==
    /\ call.op = "checkStatus"
    /\ EntryFlag
    /\ EntryErrorStatus = 0
    /\ BitAnd(EntryStat, FaultMask) # 0
    /\ bms.errorStatus = EntryStat
    /\ call.ret # 0

\* whole seconds since the last alert interrupt
SecSinceInterrupt == (now - bms.interruptTimestamp) \div 1000

\* C2: while SYS_STAT has read only the SCD bit since one alert interrupt,
\* the clear attempts (writes of 0b00000010 to SYS_STAT) number one per 60
\* elapsed seconds, never more: at most 1 + elapsed / 60 so far.
C2_ScdClearOncePer60s ==
    (obs.steady = 2 /\ chip.stuck = 2)
        => obs.clears[2] <= 1 + SecSinceInterrupt \div 60


-----------------------------------------------------------------------------
(* Switching the FETs on                                                   *)

\* cell words of a 5-cell pack at 3300 mV per cell (adcGain 375) except
\* cell 1, which is around minCellVoltage (2790, 2800, 2810 mV), at
\* 3300 mV, or around maxCellVoltage (3640, 3650, 3660 mV)
FetCellWords == {7440, 7467, 7494, 8800, 9707, 9734, 9760}

FetCells(word) == [i \in 0 .. 14 |-> IF i = 1 THEN word ELSE 8800]

\* what the converters deliver during a call in this specification: the
\* cell words to the calls that read cells, the thermistor word to
\* updateTemperatures
AdcFetCells == {[Adc0 EXCEPT !.vc = FetCells(word)] : word \in FetCellWords}
AdcFetTemperatures == {[Adc0 EXCEPT !.ts = ts] : ts \in ThermistorReadings}

UpdateVoltages(adcs) ==
    /\ \E adc \in adcs :
          Return("updateVoltages", <<>>, updateVoltages(Machine(adc)))
    /\ UNCHANGED <<now, bus>>

UpdateTemperatures(adcs) ==
    /\ \E adc \in adcs :
          Return("updateTemperatures", <<>>, updateTemperatures(Machine(adc)))
    /\ UNCHANGED <<now, bus>>

EnableCharging(adcs) ==
    /\ \E adc \in adcs :
          Return("enableCharging", Entry, enableCharging(Machine(adc)))
    /\ UNCHANGED <<now, bus>>

EnableDischarging(adcs) ==
    /\ \E adc \in adcs :
          Return("enableDischarging", Entry, enableDischarging(Machine(adc)))
    /\ UNCHANGED <<now, bus>>

InitFet ==
    /\ bms = Construct(bq76920, 8, FALSE, ChipAfterInit(0, 0, 4, 64, 0), Cfg0)
    /\ chip = ChipAfterInit(0, 0, 4, 64, 0)
    /\ now = 0
    /\ call = NoCall
    /\ bus = BusIdle
    /\ obs = Obs0(0)

NextFet ==
    \/ UpdateVoltages(AdcFetCells)
    \/ UpdateTemperatures(AdcFetTemperatures)
    \/ ChipFault
    \/ ChipRecover
    \/ EnableCharging(AdcFetCells)
    \/ EnableDischarging(AdcFetCells)

SpecFet == InitFet /\ [][NextFet]_vars

\* the writes to SYS_CTRL2 of the last call
FetWrites == SelectSeq(call.writes, LAMBDA w : w[1] = SYS_CTRL2)

\* the highest and the lowest cell voltage the driver holds
MaxCell == bms.cellVoltages[bms.idCellMaxVoltage]
MinCell == bms.cellVoltages[bms.idCellMinVoltage]

\* C5: enableCharging (enableDischarging) returns false and writes nothing
\* to SYS_CTRL2 if checkStatus returned nonzero, or the highest cell is not
\* below maxCellVoltage (the lowest not above minCellVoltage), or the
\* temperature is outside the charge (discharge) limits; SYS_CTRL2, and so
\* the CHG (DSG) bit, is written only in a call that returns true.
C5_RefusalWritesNothing ==
    /\ call.op = "enableCharging" =>
          /\ (\/ call.status # 0
              \/ ~(MaxCell < bms.maxCellVoltage)
              \/ bms.temperatures0 > bms.maxCellTempCharge
              \/ bms.temperatures0 < bms.minCellTempCharge)
                => (call.ret = 0 /\ FetWrites = <<>>)
          /\ FetWrites # <<>> =>
                (call.ret = 1 /\ BitAnd(FetWrites[1][2], 1) = 1)
    /\ call.op = "enableDischarging" =>
          /\ (\/ call.status # 0
              \/ ~(MinCell > bms.minCellVoltage)
              \/ bms.temperatures0 > bms.maxCellTempDischarge
              \/ bms.temperatures0 < bms.minCellTempDischarge)
                => (call.ret = 0 /\ FetWrites = <<>>)
          /\ FetWrites # <<>> =>
                (call.ret = 1 /\ BitAnd(FetWrites[1][2], 2) = 2)

\* a healthy driver with cells below maxCellVoltage refused to switch CHG
\* on because the pack is hotter than maxCellTempCharge
C5_Witness ==
    /\ call.op = "enableCharging"
    /\ call.status = 0
    /\ MaxCell < bms.maxCellVoltage
    /\ bms.temperatures0 > bms.maxCellTempCharge
    /\ call.ret = 0
    /\ chip.reg[SYS_CTRL2] = 64

\* C24: a successful enableCharging writes SYS_CTRL2 once, with the value
\* the register held and bit 0 (CHG) set; a successful enableDischarging
\* writes it once with bit 1 (DSG) set; all other bits of SYS_CTRL2, the
\* other FET and CC_EN among them, stay as they were.
C24_EnableSetsOneBit ==
    [][(call'.op \in {"enableCharging", "enableDischarging"} /\ call'.ret = 1)
          => LET bit == IF call'.op = "enableCharging" THEN 1 ELSE 2
             IN /\ SelectSeq(call'.writes, LAMBDA w : w[1] = SYS_CTRL2)
                      = <<<<SYS_CTRL2, BitOr(chip.reg[SYS_CTRL2], bit)>>>>
                /\ chip'.reg[SYS_CTRL2] = BitOr(chip.reg[SYS_CTRL2], bit)]_vars

\* enableCharging succeeded after enableDischarging: CHG, DSG and CC_EN
\* are all set
C24_Witness ==
    /\ call.op = "enableCharging"
    /\ call.ret = 1
    /\ call.writes # <<>>
    /\ call.writes[Len(call.writes)] = <<SYS_CTRL2, 67>>
    /\ chip.reg[SYS_CTRL2] = 67

-----------------------------------------------------------------------------
(* Balancing a 10-cell pack                                                *)

\* the clock of this specification advances by BalanceTick_s seconds at a
\* time, up to MaxBalanceTime_s
BalanceTick_s == 60
MaxBalanceTime_s == 60

\* how many times the short-circuit protection trips
MaxShortCircuits == 1

CellbalRegs == {CELLBAL1, CELLBAL1 + 1, CELLBAL1 + 2}

\* the high cells of the packs of this specification: any cells of the
\* first section with none of the second, or two neighbours of the second
\* section with none or one of the first
CellPatterns ==
    {<<p, {}>> : p \in SUBSET (0 .. 4)} \cup {<<{}, {1, 2}>>, <<{0}, {1, 2}>>}

\* cell words of a 10-cell pack at 3000 mV per cell (adcGain 375) except
\* the cells p of the first section and q of the second, at 3060 mV
BalanceCells(p, q) ==
    [i \in 0 .. 14 |-> IF i \in p \/ (i - 5) \in q THEN 8160 ELSE 8000]

\* what the converters deliver during a call in this specification
AdcBalance ==
    {[Adc0 EXCEPT !.vc = BalanceCells(pq[1], pq[2])] : pq \in CellPatterns}

\* the policies the application sets: idle time in minutes, minimum cell
\* voltage and voltage difference in mV
BalancingPolicies == {<<0, 3030, 30>>, <<1, 3030, 30>>,
                      <<0, 3060, 30>>, <<0, 3030, 60>>}

\* some CELLBAL register holds a nonzero flag set
CellbalActive == \E r \in CellbalRegs : chip.reg[r] # 0

TickBalance ==
    /\ now + BalanceTick_s * 1000 <= MaxBalanceTime_s * 1000
    /\ now' = now + BalanceTick_s * 1000
    /\ UNCHANGED <<bms, chip, call, bus, obs>>

\* the short-circuit protection trips; its cause does not persist
ChipShortCircuit ==
    /\ obs.clears[2] < MaxShortCircuits
    /\ BitAnd(chip.reg[SYS_STAT], FaultMask) = 0
    /\ ChipRaise(2, FALSE)

SetBalancingThresholds ==
    /\ \E policy \in BalancingPolicies :
          Return("setBalancingThresholds", policy,
                 setBalancingThresholds(Machine(Adc0), policy[1], policy[2],
                                        policy[3]))
    /\ UNCHANGED <<now, bus>>

\* void update()
Update(adcs) ==
    /\ \E adc \in adcs :
          Return("update", <<CellbalActive>>, update(Machine(adc)))
    /\ UNCHANGED <<now, bus>>

UpdateBalancingSwitches ==
    /\ Return("updateBalancingSwitches", <<CellbalActive>>,
              updateBalancingSwitches(Machine(Adc0)))
    /\ UNCHANGED <<now, bus>>

InitBalance ==
    /\ bms = Construct(bq76930, 8, FALSE, ChipAfterInit(0, 0, 4, 64, 0), Cfg0)
    /\ chip = ChipAfterInit(0, 0, 4, 64, 0)
    /\ now = 0
    /\ call = NoCall
    /\ bus = BusIdle
    /\ obs = Obs0(0)

NextBalance ==
    \/ TickBalance
    \/ ChipShortCircuit
    \/ SetBalancingThresholds
    \/ Update(AdcBalance)
    \/ UpdateBalancingSwitches

SpecBalance == InitBalance /\ [][NextBalance]_vars

\* the last call ran updateBalancingSwitches
BalancingCall == call.op \in {"update", "updateBalancingSwitches"}

\* the writes to CELLBAL registers of the last call
CellbalWrites == SelectSeq(call.writes, LAMBDA w : w[1] \in CellbalRegs)

\* C6: every value updateBalancingSwitches writes to a CELLBAL register has
\* no two adjacent bits set: flags & (flags << 1) == 0.
C6_NoAdjacentCellsBalanced ==
    BalancingCall =>
        \A k \in 1 .. Len(CellbalWrites) :
            BitAnd(CellbalWrites[k][2], CellbalWrites[k][2] * 2) = 0

\* cells 0 and 1 were both above the difference; cell 0 is balanced and
\* cell 1 is not
C6_Witness ==
    /\ BalancingCall
    /\ call.branch = "balance"
    /\ bms.cellVoltages[0] - MinCell > bms.balancingMaxVoltageDifference_mV
    /\ bms.cellVoltages[1] - MinCell > bms.balancingMaxVoltageDifference_mV
    /\ CellbalWrites # <<>>
    /\ CellbalWrites[1][1] = CELLBAL1
    /\ BitAnd(CellbalWrites[1][2], 3) = 1

\* the last call computed and wrote balancing flags
WroteFlags == call.branch = "balance" /\ CellbalWrites # <<>>

\* C7 as stated: flags are computed and written exactly when the driver is
\* HEALTHY, idle seconds >= balancingMinIdleTime_s, the highest cell
\* >= balancingMinCellVoltage_mV and highest - lowest
\* >= balancingMaxVoltageDifference_mV.
C7_GateInclusive ==
    BalancingCall =>
        (WroteFlags <=>
            /\ call.status = 0
            /\ call.idleSeconds >= bms.balancingMinIdleTime_s
            /\ MaxCell >= bms.balancingMinCellVoltage_mV
            /\ MaxCell - MinCell >= bms.balancingMaxVoltageDifference_mV)

\* C7 amended: flags are computed and written exactly when the driver is
\* HEALTHY, idle seconds >= balancingMinIdleTime_s, the highest cell
\* > balancingMinCellVoltage_mV and highest - lowest
\* > balancingMaxVoltageDifference_mV: the idle bound is inclusive, the two
\* voltage bounds are strict.
C7_GateStrictOnVoltages ==
    BalancingCall =>
        (WroteFlags <=>
            /\ call.status = 0
            /\ call.idleSeconds >= bms.balancingMinIdleTime_s
            /\ MaxCell > bms.balancingMinCellVoltage_mV
            /\ MaxCell - MinCell > bms.balancingMaxVoltageDifference_mV)

\* flags were written with the idle time just reached
C7_Witness ==
    /\ BalancingCall
    /\ WroteFlags
    /\ bms.balancingMinIdleTime_s > 0
    /\ call.idleSeconds = bms.balancingMinIdleTime_s

\* the writes of the clearing branch: 0 to every section's register
RECURSIVE ZeroWrites(_)
ZeroWrites(section) ==
    IF section >= bms.numberOfCells \div 5 THEN <<>>
    ELSE <<<<CELLBAL1 + section, 0>>>> \o ZeroWrites(section + 1)

\* C8: a call in which the gate fails, entered with a nonzero flag set in
\* some CELLBAL register, writes 0 to every section's register and sets
\* balancingStatus to 0; entered with no nonzero flag set it writes to no
\* CELLBAL register; either way no CELLBAL register is nonzero after it.
\* A call in which the gate holds leaves a nonzero flag set.
C8_GateFailureClearsOnce ==
    BalancingCall =>
        IF call.branch = "balance"
        THEN CellbalActive /\ bms.balancingStatus > 0
        ELSE /\ ~CellbalActive
             /\ bms.balancingStatus = 0
             /\ CellbalWrites = (IF call.args[1] THEN ZeroWrites(0) ELSE <<>>)

\* balancing in the second section was switched off by a call that saw a
\* fault
C8_Witness ==
    /\ BalancingCall
    /\ call.args[1]
    /\ call.status # 0
    /\ call.branch = "clear"
    /\ CellbalWrites = <<<<CELLBAL1, 0>>, <<CELLBAL1 + 1, 0>>>>
    /\ ~CellbalActive

\* C19: of two consecutive calls of updateBalancingSwitches with the same
\* cell voltages and the same policy, the gate satisfied in both, the
\* second writes the same flags to each section's CELLBAL register as the
\* first and leaves the same balancingStatus.
C19_BalancingIdempotent ==
    [][(/\ BalancingCall
        /\ call.branch = "balance"
        /\ call'.op \in {"update", "updateBalancingSwitches"}
        /\ bms'.cellVoltages = bms.cellVoltages
        /\ bms'.balancingMinIdleTime_s = bms.balancingMinIdleTime_s
        /\ bms'.balancingMinCellVoltage_mV = bms.balancingMinCellVoltage_mV
        /\ bms'.balancingMaxVoltageDifference_mV
              = bms.balancingMaxVoltageDifference_mV
        /\ call'.status = 0
        /\ call'.idleSeconds >= bms'.balancingMinIdleTime_s
        /\ bms'.cellVoltages[bms'.idCellMaxVoltage]
              > bms'.balancingMinCellVoltage_mV
        /\ bms'.cellVoltages[bms'.idCellMaxVoltage]
              - bms'.cellVoltages[bms'.idCellMinVoltage]
              > bms'.balancingMaxVoltageDifference_mV)
          => /\ SelectSeq(call'.writes, LAMBDA w : w[1] \in CellbalRegs)
                   = CellbalWrites
             /\ bms'.balancingStatus = bms.balancingStatus]_vars

\* updateBalancingSwitches found cells 0 and 2 balanced and, the gate
\* satisfied again, wrote the same flags again
C19_Witness ==
    /\ call.op = "updateBalancingSwitches"
    /\ call.args[1]
    /\ call.branch = "balance"
    /\ CellbalWrites = <<<<CELLBAL1, 5>>, <<CELLBAL1 + 1, 0>>>>
    /\ bms.balancingStatus = 5

\* C21: while enableAutoBalancing has not been called (autoBalancingEnabled
\* is false, as the constructor sets it), no call of update or
\* updateBalancingSwitches writes a nonzero value to a CELLBAL register.
C21_NoBalancingUnlessEnabled ==
    (BalancingCall /\ ~bms.autoBalancingEnabled)
        => \A k \in 1 .. Len(CellbalWrites) : CellbalWrites[k][2] = 0

\* C23: after a call in which the gate holds, bit 5 * section + i of
\* balancingStatus is set exactly if bit i of the flags written to the
\* section's CELLBAL register is set.
C23_StatusBitPerCell ==
    (BalancingCall /\ call.branch = "balance")
        => \A k \in 1 .. Len(CellbalWrites) : \A i \in 0 .. 4 :
              (bms.balancingStatus \div 2 ^ (5 * (CellbalWrites[k][1] - CELLBAL1) + i)) % 2
                 = (CellbalWrites[k][2] \div 2 ^ i) % 2

-----------------------------------------------------------------------------
(* Cell readings with open or empty channels                               *)

SpecVoltages ==
    InitFet
      /\ [][UpdateVoltages(
               {[Adc0 EXCEPT !.vc = [i \in 0 .. 14 |->
                                       IF i < 5 THEN w[i + 1] ELSE 0]] :
                   w \in [1 .. 5 -> {0, 1334, 1336, 8000}]})]_vars

\* C11: after every updateVoltages call in which some cell reads above
\* 500 mV, idCellMinVoltage is the index of the first lowest cell among
\* the cells above 500 mV, whatever cell 0 reads, and idCellMaxVoltage is
\* the index of the first highest cell.
C11_MinIndexAmongCellsAbove500 ==
    (/\ call.op = "updateVoltages"
     /\ \E i \in 0 .. bms.numberOfCells - 1 : bms.cellVoltages[i] > 500)
        => /\ MinCell > 500
           /\ \A i \in 0 .. bms.numberOfCells - 1 :
                 bms.cellVoltages[i] > 500 =>
                    /\ MinCell <= bms.cellVoltages[i]
                    /\ i < bms.idCellMinVoltage => MinCell < bms.cellVoltages[i]
           /\ \A i \in 0 .. bms.numberOfCells - 1 :
                 /\ bms.cellVoltages[i] <= MaxCell
                 /\ i < bms.idCellMaxVoltage => bms.cellVoltages[i] < MaxCell

-----------------------------------------------------------------------------
(* Clearing voltage faults                                                 *)

\* seconds the clock of this specification runs
MaxClearTime_s == 1

\* a second passes between two calls
TickClear ==
    /\ now + 1000 <= MaxClearTime_s * 1000
    /\ now' = now + 1000
    /\ UNCHANGED <<bms, chip, call, bus, obs>>

\* protections trip at the start, while no fault is latched or persisting:
\* UV with OV, or all six at once
ChipTrip ==
    /\ now = 0
    /\ BitAnd(chip.reg[SYS_STAT], FaultMask) = 0
    /\ chip.stuck = 0
    /\ \E bits \in {12, 63}, persists \in BOOLEAN :
          ChipRaise(bits, persists)

\* checkStatus, with the cell words it is given to read kept in the call
CheckStatusCells(adcs) ==
    /\ \E adc \in adcs :
          Return("checkStatus", Entry \o <<adc.vc>>, checkStatus(Machine(adc)))
    /\ UNCHANGED <<now, bus>>

\* The converters deliver a 5-cell pack at 3300 mV per cell except cell 1,
\* which reads 2800, 2810 or 3650 mV, and possibly a short circuit
\* detected while the call is running.
SpecClear ==
    InitFet
      /\ [][\/ TickClear
            \/ ChipTrip
            \/ ChipCCReady
            \/ ChipRecover
            \/ CheckStatusCells(
                  {[Adc0 EXCEPT !.vc = FetCells(word), !.late = late] :
                      word \in {7467, 7494, 9734}, late \in {0, 2}})]_vars

\* the bytes the last call wrote to SYS_STAT, the clearing of CC_READY by
\* updateCurrent apart
FaultClearWrites ==
    {call.writes[k][2] : k \in {j \in 1 .. Len(call.writes) :
                                   /\ call.writes[j][1] = SYS_STAT
                                   /\ call.writes[j][2] # CC_READY}}

\* C12: every write to SYS_STAT by the fault handling of checkStatus is
\* the mask of one of the six fault bits, and that bit was set in the
\* status byte read at the start of the same call.
C12_ClearsOnlyBitsRead ==
    call.op = "checkStatus" =>
        \A byte \in FaultClearWrites :
            /\ byte \in FaultBits
            /\ BitAnd(EntryStat, byte) = byte

\* a call that read all six fault bits has written six single-bit clears;
\* the short circuit latched while it ran was not written
C12_Witness ==
    /\ call.op = "checkStatus"
    /\ EntryStat = 63 + CC_READY
    /\ FaultClearWrites = {32, 16, 8, 4, 2, 1}
    /\ Len(call.writes) = 7

\* C13: checkStatus writes the UV (OV) clear only after updateVoltages ran
\* in the same call, and only if the lowest cell just read is above
\* minCellVoltage (the highest below maxCellVoltage).  FreshCells are the
\* cell voltages of the words the call was given.
C13_VoltageClearsNeedFreshRecovery ==
    call.op = "checkStatus" =>
        LET FreshCells == [i \in 0 .. bms.numberOfCells - 1 |->
                              CellMilliVolt(bms, call.args[4][i])]
        IN /\ 8 \in FaultClearWrites =>
                 /\ bms.cellVoltages = FreshCells
                 /\ \A i \in DOMAIN FreshCells :
                       FreshCells[i] > bms.minCellVoltage
           /\ 4 \in FaultClearWrites =>
                 /\ bms.cellVoltages = FreshCells
                 /\ \A i \in DOMAIN FreshCells :
                       FreshCells[i] < bms.maxCellVoltage

\* a FAULTED driver has written its first UV clear since the alert, in a
\* call that read the lowest cell at 2810 mV
C13_Witness ==
    /\ call.op = "checkStatus"
    /\ BitAnd(EntryStat, 8) = 8
    /\ EntryErrorStatus # 0
    /\ 8 \in FaultClearWrites
    /\ CellMilliVolt(bms, call.args[4][1]) = 2810
    /\ obs.clears[8] = 1

-----------------------------------------------------------------------------
(* FAULTED and HEALTHY                                                     *)

\* C14: errorStatus goes from nonzero to 0 only in a checkStatus call that
\* reads SYS_STAT with all six fault bits clear; after a checkStatus call
\* that read the register, errorStatus is 0 exactly if the six fault bits
\* of the byte read were 0, whatever the call wrote to clear them.
C14_HealthyOnlyByCleanPoll ==
    /\ [](call.op = "checkStatus" /\ (EntryFlag \/ EntryErrorStatus # 0)
            => (bms.errorStatus = 0 <=> BitAnd(EntryStat, FaultMask) = 0))
    /\ [][(bms.errorStatus # 0 /\ bms'.errorStatus = 0)
            => /\ call'.op = "checkStatus"
               /\ BitAnd(chip.reg[SYS_STAT], FaultMask) = 0]_vars

\* a FAULTED driver whose clear attempt had taken effect has polled a clean
\* status byte and is HEALTHY
C14_Witness ==
    /\ call.op = "checkStatus"
    /\ EntryErrorStatus # 0
    /\ BitAnd(EntryStat, FaultMask) = 0
    /\ bms.errorStatus = 0
    /\ obs.clears[32] = 1

\* C20: while FAULTED the auto-clear block runs at most once per elapsed
\* second since the alert interrupt, however often checkStatus is called:
\* while SYS_STAT has read only the XR bit since one alert interrupt, the
\* XR clear attempts (writes of 0b00100000) number at most one per second
\* that is a multiple of 3, so at most 1 + elapsed / 3 so far.
C20_XrClearOncePerThirdSecond ==
    (obs.steady = 32 /\ chip.stuck = 32)
        => obs.clears[32] <= 1 + SecSinceInterrupt \div 3

-----------------------------------------------------------------------------
(* The state-of-charge estimator                                           *)

\* cell words (adcGain 375) for 3400, 3500, 3550, 3599, 3600, 3650, 3900,
\* 4000, 4199, 4200 and 4300 mV
SocCellWords == {9067, 9334, 9467, 9598, 9600, 9734, 10400, 10667, 11198,
                 11200, 11467}

\* setBatteryCapacity with a capacity in mAh
SetBatteryCapacity ==
    /\ \E capacity_mAh \in {-1, 45, 10000} :
          Return("setBatteryCapacity", <<capacity_mAh>>,
                 setBatteryCapacity(Machine(Adc0), capacity_mAh))
    /\ UNCHANGED <<now, bus>>

\* setOCV with a strictly descending table: breakpoints 50 mV apart below
\* 3650 mV, or breakpoints 100, 200, 300 mV ... apart below 4200 mV
SetOCV ==
    /\ \E voltageVsSOC \in
             {[i \in 1 .. NUM_OCV_POINTS |-> 3650 - 50 * (i - 1)],
              [i \in 1 .. NUM_OCV_POINTS |-> 4200 - 50 * i * (i - 1)]} :
          Return("setOCV", <<voltageVsSOC>>,
                 setOCV(Machine(Adc0), voltageVsSOC))
    /\ UNCHANGED <<now, bus>>

\* resetSOC; the call keeps the driver it was entered with.  The reset by
\* table is called once the table is set.
ResetSOC ==
    /\ \E percent \in {-1, 0, 33, 50, 100, 101} :
          /\ (percent < 0 \/ percent > 100) => bms.OCV # <<>>
          /\ Return("resetSOC", <<percent, bms>>,
                    resetSOC(Machine(Adc0), percent))
    /\ UNCHANGED <<now, bus>>

SpecSoc ==
    InitFet /\ [][\/ SetBatteryCapacity
                  \/ SetOCV
                  \/ UpdateVoltages({[Adc0 EXCEPT !.vc = [i \in 0 .. 14 |-> w]] :
                                        w \in SocCellWords})
                  \/ ResetSOC]_vars

\* the reset by the OCV table is monotone in the voltage around the one
\* measured, 0 below every breakpoint and nominalCapacity from OCV[0] on
OcvMonotoneHere ==
    /\ \A w \in SocCellWords :
          /\ CellMilliVolt(bms, w) <= MaxCell
                => ocvCounter(bms, CellMilliVolt(bms, w), 0)
                      <= bms.coulombCounter
          /\ CellMilliVolt(bms, w) >= MaxCell
                => ocvCounter(bms, CellMilliVolt(bms, w), 0)
                      >= bms.coulombCounter
    /\ MaxCell < bms.OCV[NUM_OCV_POINTS] => bms.coulombCounter = 0
    /\ MaxCell >= bms.OCV[1] => bms.coulombCounter = bms.nominalCapacity

\* C15 as stated: for a strictly descending OCV table and a nonzero
\* nominalCapacity, the coulombCounter that resetSOC derives from the table
\* does not decrease when the measured max cell voltage increases; it is 0
\* below every breakpoint and nominalCapacity at or above OCV[0].
C15_OcvResetMonotone ==
    (/\ call.op = "resetSOC"
     /\ call.args[1] \notin 0 .. 100
     /\ bms.nominalCapacity # 0) => OcvMonotoneHere

\* C15 amended: the same for a positive nominalCapacity.
C15_OcvResetMonotonePositive ==
    (/\ call.op = "resetSOC"
     /\ call.args[1] \notin 0 .. 100
     /\ bms.nominalCapacity > 0) => OcvMonotoneHere

\* a reset by the table between two breakpoints has interpolated
C15_Witness ==
    /\ call.op = "resetSOC"
    /\ call.args[1] \notin 0 .. 100
    /\ bms.nominalCapacity = 162000
    /\ MaxCell = 4000
    /\ bms.OCV[2] = 4100
    /\ bms.coulombCounter = 81000

\* C16: for every percent p in 0..100 and every nonzero
\* nominalCapacity, getSOC() after resetSOC(p) is p up to the rounding of
\* the float (a hundredth of a percent here), and resetSOC changes only
\* coulombCounter.
C16_SocRoundTrip ==
    (/\ call.op = "resetSOC"
     /\ call.args[1] \in 0 .. 100
     /\ bms.nominalCapacity # 0)
        => /\ Abs(getSOC(bms) - 100 * call.args[1]) <= 1
           /\ bms = [call.args[2] EXCEPT !.coulombCounter = bms.coulombCounter]
           /\ call.writes = <<>>

-----------------------------------------------------------------------------
(* Current protection thresholds                                           *)

\* setShortCircuitProtection with a current in mA and a delay in us
SetShortCircuitProtection ==
    /\ \E current_mA \in {0, 43000, 44000, 67000, 200000},
          delay_us \in {70, 399},
          beyondThreshold \in {0, Len(SCD_threshold_setting),
                              sizeofTable(SCD_threshold_setting) - 1},
          beyondDelay \in {0, sizeofTable(SCD_delay_setting) - 1},
          stack \in {0, 255} :
          Return("setShortCircuitProtection", <<current_mA, beyondThreshold>>,
                 setShortCircuitProtection(Machine(Adc0), current_mA,
                     delay_us, beyondThreshold, beyondDelay, stack))
    /\ UNCHANGED <<now, bus>>

\* setOvercurrentDischargeProtection with a current in mA and a delay in ms
SetOvercurrentDischargeProtection ==
    /\ \E current_mA \in {16000, 17000, 44000, 200000},
          delay_ms \in {8, 1280},
          beyondThreshold \in {0, Len(OCD_threshold_setting),
                              sizeofTable(OCD_threshold_setting) - 1},
          beyondDelay \in {0, sizeofTable(OCD_delay_setting) - 1},
          stack \in {0, 255} :
          Return("setOvercurrentDischargeProtection",
                 <<current_mA, beyondThreshold>>,
                 setOvercurrentDischargeProtection(Machine(Adc0), current_mA,
                     delay_ms, beyondThreshold, beyondDelay, stack))
    /\ UNCHANGED <<now, bus>>

\* After construction and setShuntResistorValue(1) or (2).
InitCurrent ==
    /\ \E shunt \in {1, 2} :
          bms = Construct(bq76920, 8, FALSE, ChipAfterInit(0, 0, 4, 64, 0),
                          [Cfg0 EXCEPT !.shuntResistorValue_mOhm = shunt])
    /\ chip = ChipAfterInit(0, 0, 4, 64, 0)
    /\ now = 0
    /\ call = NoCall
    /\ bus = BusIdle
    /\ obs = Obs0(0)

\* The driver sets the two current limits, in any order and any number of
\* times.
SpecCurrent ==
    InitCurrent
      /\ [][SetShortCircuitProtection \/ SetOvercurrentDischargeProtection]_vars

\* C17: setShortCircuitProtection and setOvercurrentDischargeProtection
\* program as threshold code the largest table index whose entry is <=
\* current_mA * shuntResistorValue_mOhm / 1000 (0 if there is none), the
\* scan reads no word outside the table, and the current returned is <= the
\* current requested whenever the request reaches the table's lowest entry.
C17_LargestThresholdNotAbove ==
    call.op \in {"setShortCircuitProtection",
                 "setOvercurrentDischargeProtection"}
        => LET short == call.op = "setShortCircuitProtection"
               table == IF short THEN SCD_threshold_setting
                        ELSE OCD_threshold_setting
               value == CDiv(call.args[1] * bms.shuntResistorValue_mOhm, 1000)
               fits == {i \in 0 .. Len(table) - 1 : table[i + 1] <= value}
               code == IF short THEN chip.reg[PROTECT1] % 8
                       ELSE chip.reg[PROTECT2] % 16
           IN /\ code = IF fits = {} THEN 0
                        ELSE CHOOSE i \in fits : \A j \in fits : j <= i
              /\ call.branch # "outside"
              /\ value >= table[1] => call.ret <= call.args[1]

-----------------------------------------------------------------------------
(* Construction with a failing communication test                          *)

\* The program starts again and constructs its driver, in the storage of
\* the old one, on a chip of any type and a bus that may be disturbed.
Restart ==
    /\ \E bqType \in {bq76920, bq76930, bq76940}, bqI2CAddress \in {8, 24},
          crc \in BOOLEAN, readBack \in {25, 0, 255} :
          Return("bq769x0", <<readBack, bms>>,
                 bq769x0(Machine(Adc0), bqType, bqI2CAddress, crc, readBack))
    /\ UNCHANGED <<now, bus>>

\* A chip that may have latched a fault, and a program that restarts.
SpecConstruct == InitFet /\ [][Restart \/ ChipFault \/ ChipRecover]_vars

\* C18: if the read-back of CC_CFG in the constructor is not 0x19, the
\* driver shows a communication error as an error state or value, and
\* leaves the device unconfigured: it writes neither SYS_CTRL1 nor
\* SYS_CTRL2 and reads no calibration register (adcGain and adcOffset keep
\* what the storage held).
C18_HandshakeFailureSignalled ==
    (call.op = "bq769x0" /\ call.args[1] # 25)
        => /\ bms.errorStatus # 0 \/ call.ret # 0 \/ call.status # 0
           /\ \A i \in 1 .. Len(call.writes) :
                 call.writes[i][1] \notin {SYS_CTRL1, SYS_CTRL2}
           /\ bms.adcGain = call.args[2].adcGain
           /\ bms.adcOffset = call.args[2].adcOffset

-----------------------------------------------------------------------------
(* The alert handler beside updateCurrent                                  *)

\* updateCurrent has run "sys_stat.regByte = readRegister(SYS_STAT)": the
\* call in progress keeps the byte in status and, in args, the fault bits
\* the handler has run for since
UpdateCurrentBegin ==
    /\ call.branch # "read"
    /\ call' = [NoCall EXCEPT !.op = "updateCurrent", !.branch = "read",
                              !.status = readRegister(Machine(Adc0), SYS_STAT),
                              !.args = <<0>>]
    /\ UNCHANGED <<bms, chip, now, bus, obs>>

\* a fault bit becomes set and setAlertInterruptFlag runs while
\* updateCurrent is between its read of SYS_STAT and the rest of its body
AlertDuringUpdateCurrent ==
    /\ call.branch = "read"
    /\ \E bits \in FaultKinds :
          /\ BitAnd(chip.reg[SYS_STAT], bits) = 0
          /\ chip' = [chip EXCEPT !.reg[SYS_STAT] = BitOr(@, bits)]
          /\ call' = [call EXCEPT !.args = <<BitOr(call.args[1], bits)>>]
    /\ bms' = setAlertInterruptFlag(bms)
    /\ obs' = [obs EXCEPT !.steady = -1]
    /\ UNCHANGED <<now, bus>>

\* updateCurrent runs the rest of its body on the byte it read, and returns
UpdateCurrentEnd ==
    /\ call.branch = "read"
    /\ Return("updateCurrent", call.args,
              [updateCurrentRead(Machine(Adc0), call.status)
                 EXCEPT !.branch = "done"])
    /\ UNCHANGED <<now, bus>>

\* updateCurrent in two steps, the chip and the alert handler beside it
SpecHandoff ==
    InitFet
      /\ [][\/ TickClear
            \/ ChipCCReady
            \/ ChipFault
            \/ ChipRecover
            \/ UpdateCurrentBegin
            \/ AlertDuringUpdateCurrent
            \/ UpdateCurrentEnd]_vars

\* C22: if setAlertInterruptFlag ran during updateCurrent because a fault
\* bit became set, then alertInterruptFlag is true when updateCurrent
\* returns or errorStatus is nonzero, and the next checkStatus does not
\* return 0.
C22_NoAlertLost ==
    (call.op = "updateCurrent" /\ call.branch = "done" /\ call.args[1] # 0)
        => /\ bms.alertInterruptFlag \/ bms.errorStatus # 0
           /\ checkStatus(Machine(Adc0)).ret # 0

=============================================================================
